---- MODULE Spec2Model ----
(***************************************************************************)
(* Verification model of taos-connector-rust:                              *)
(*   - taos-sys/src/query/future.rs : QueryFuture, the bridge from the     *)
(*     native callback API (query_a) to a pollable future;                 *)
(*   - taos-query/src/common/raw/data.rs : RawData, the length + type +    *)
(*     payload envelope and its blocking / non-blocking codec.             *)
(***************************************************************************)
EXTENDS Integers, Sequences, FiniteSets, TLC

(***************************************************************************)
(* Bounds of the model.                                                    *)
(***************************************************************************)
\* native calls one future may issue before the model stops issuing
MaxCalls == 2
\* payload bytes of the short envelopes: 0..MaxLen
MaxLen == 2
\* payload bytes of the long envelope, whose length does not fit one byte
LongLen == 258
\* columns of up to MaxRows items are built in every way; LongCol has LongRows
MaxRows == 1
LongRows == 10
\* calls of next made on an iterator after its last item
MaxAfter == 2
\* the widest and the longest block iterated over
MaxCols == 2
MaxBlockRows == 2
\* frames of one function the stack has room for
MaxStack == 8

\* the null pointer; the result handle of the i-th native call is i
NULL == 0
CallIds == 1..MaxCalls
Handles == CallIds
\* status codes the native library may report: success and a failure code
Codes == {0, 1}
\* wake handles (tasks) a poll may be made on behalf of
Wakers == {"w1", "w2"}

VARIABLES
    \* ---- future.rs: struct State (the Arc<UnsafeCell<State>> cell) ----
    result,      \* State.result : *mut TAOS_RES
    code,        \* State.code   : i32
    done,        \* State.done   : bool
    strong,      \* strong count of the Arc that owns the State cell
    stateAlloc,  \* TRUE while the State cell is allocated
    stateFrees,  \* how many times the State cell has been deallocated
    invalidWrites, \* callback writes made into a deallocated State cell
    \* ---- future.rs: struct QueryFuture and the poll in progress ----
    futAlive,    \* FALSE once the QueryFuture has been dropped
    ppc,         \* position of the poll in progress
    pwaker,      \* cx.waker() of the poll in progress
    presult,     \* state.result as read by the poll in progress
    pentry,      \* history: the value done had when the poll in progress was entered
    ret,         \* what the last finished poll returned
    \* ---- the native side: one entry per query_a call ----
    issued,      \* number of query_a calls made so far
    calls,       \* per call: the boxed token, the callback's position and arguments
    woken,       \* wake handles that have been woken and not yet polled
    firstFired,  \* the call whose callback was the first to set done (0: none yet)
    \* ---- data.rs: one envelope on its way through the codec ----
    env,         \* the RawData being encoded
    wire,        \* the bytes the writer has received / the reader will deliver
    written,     \* what write_inlined returned
    truncated,   \* TRUE if the byte source ends before the end of the frame
    decoded,     \* what read_inlined returned
    epc,         \* "built", "written" or "decoded"
    encoder,     \* the codec that wrote the frame: "sync" or "async"
    decoder,     \* the codec that read the frame: "sync" or "async"
    \* ---- big_int_unsigned_view.rs: one column and the last operation on it ----
    view,        \* the UBigIntView operated on
    cop,         \* the last operation: its name, self, argument and return value
    cit,         \* the UBigIntViewIter alive on the view (NoIter: none)
    cnexts,      \* calls of next made on the iterator
    cyield,      \* the items those calls returned, in order
    chint,       \* size_hint() and len() of the iterator after the last call
    cderived,    \* FALSE: the view was built by from_iter; TRUE: an operation returned it
    \* ---- rows.rs: one block and a row iterator over it ----
    block,       \* the RawBlock iterated over
    rkind,       \* "RowsIter" (borrowing) or "IntoRowsIter" (owning)
    rrow,        \* the iterator's field row
    rlast,       \* what the last call of next returned
    ryield,      \* the RowViews handed out so far, in order
    rcalls,      \* calls of next made so far
    \* ---- rows.rs: one cursor over the columns of a row ----
    rv,          \* the ValueIter, RowView or RowViewOfValue in use (NoView: none)
    rvcalls,     \* calls of next made on it
    rvyield,     \* the items those calls returned, in order
    rvlast,      \* what the last call of next returned
    rvhint,      \* size_hint() of the RowView after the last call
    oob,         \* unchecked accesses made out of bounds so far
    crashed,     \* TRUE once an out-of-bounds access has ended the process
    \* ---- rows.rs: one row being deserialized from a RowView ----
    dreq,        \* how the target asked for the row: "seq", "map" or "struct"
    dpc,         \* "idle", "key", "value", "element", "done" or "failed"
    dkey,        \* the key next_key_seed reported last
    dout,        \* what was delivered to the visitor so far, in order
    dres,        \* what the last call into the RowView returned
    dhist,       \* the rows deserialized so far and how each ended
    \* ---- tmq.rs: one comparison of a tmq_conf_res_t with an i32 ----
    tself,       \* the tmq_conf_res_t compared
    tother,      \* the i32 it is compared with
    tdepth,      \* frames of PartialEq<i32>::eq on the stack
    tpc          \* "idle", "running" or "overflow"

futureVars == <<result, code, done, strong, stateAlloc, stateFrees, invalidWrites,
                futAlive, ppc, pwaker, presult, pentry, ret,
                issued, calls, woken, firstFired>>

envelopeVars == <<env, wire, written, truncated, decoded, epc, encoder, decoder>>

columnVars == <<view, cop, cit, cnexts, cyield, chint, cderived>>

cursorVars == <<rv, rvcalls, rvyield, rvlast, rvhint, oob, crashed>>

deserVars == <<dreq, dpc, dkey, dout, dres, dhist>>

rowsVars == <<block, rkind, rrow, rlast, ryield, rcalls, cursorVars, deserVars>>

tmqVars == <<tself, tother, tdepth, tpc>>

vars == <<futureVars, envelopeVars, columnVars, rowsVars, tmqVars>>

\* variables that the future-bridge actions leave alone
nonFutureVars == <<envelopeVars, columnVars, rowsVars, tmqVars>>
\* variables that the envelope codec actions leave alone
nonEnvelopeVars == <<futureVars, columnVars, rowsVars, tmqVars>>
\* variables that the column view actions leave alone
nonColumnVars == <<futureVars, envelopeVars, rowsVars, tmqVars>>
\* variables that the row iterator actions leave alone
nonRowsVars == <<futureVars, envelopeVars, columnVars, tmqVars>>
\* variables that the comparison of tmq.rs leaves alone
nonTmqVars == <<futureVars, envelopeVars, columnVars, rowsVars>>

(***************************************************************************)
(* future.rs                                                               *)
(***************************************************************************)
NoCall == [box |-> "none", boxFrees |-> 0, waker |-> "none", cb |-> "none",
           res |-> NULL, c |-> 0, wrote |-> {}, woke |-> "none"]

NoRet == [kind |-> "None"]
Pending == [kind |-> "Pending"]

\* RawRes::from_ptr_with_code(ptr, code): Err(code) for a non-zero code,
\* Ok(handle) otherwise
from_ptr_with_code(ptr, c) ==
    IF c # 0 THEN [kind |-> "Ready", ok |-> FALSE, handle |-> NULL, code |-> c]
             ELSE [kind |-> "Ready", ok |-> TRUE, handle |-> ptr, code |-> 0]

\* QueryFuture::new: State { result: null, code: 0, done: false } in a fresh Arc
new ==
    /\ result = NULL
    /\ code = 0
    /\ done = FALSE
    /\ strong = 1
    /\ stateAlloc = TRUE
    /\ stateFrees = 0
    /\ invalidWrites = 0
    /\ futAlive = TRUE
    /\ ppc = "idle"
    /\ pwaker = "none"
    /\ presult = NULL
    /\ pentry = FALSE
    /\ ret = NoRet
    /\ issued = 0
    /\ calls = [i \in CallIds |-> NoCall]
    /\ woken = {}
    /\ firstFired = 0

\* Dropping one Arc reference: the State cell is freed when the last one goes.
ArcDrop ==
    /\ strong' = strong - 1
    /\ stateAlloc' = IF strong = 1 THEN FALSE ELSE stateAlloc
    /\ stateFrees' = IF strong = 1 THEN stateFrees + 1 ELSE stateFrees

\* The consumer polls a future it was woken for: fn poll is entered.
poll_woken(w) ==
    /\ futAlive /\ ppc = "idle"
    /\ w \in woken
    /\ woken' = woken \ {w}
    /\ ppc' = "enter"
    /\ pwaker' = w
    /\ pentry' = done
    /\ UNCHANGED <<result, code, done, strong, stateAlloc, stateFrees, invalidWrites,
                   futAlive, presult, ret, issued, calls, firstFired>>
    /\ UNCHANGED nonFutureVars

\* The consumer polls without having been woken (first poll, select!, join!, ...).
\* The wake handles are interchangeable, so the first poll is taken to be w1's.
poll_unprompted(w) ==
    /\ futAlive /\ ppc = "idle"
    /\ w \notin woken
    /\ issued = 0 => w = "w1"
    /\ issued < MaxCalls
    /\ ppc' = "enter"
    /\ pwaker' = w
    /\ pentry' = done
    /\ UNCHANGED <<result, code, done, strong, stateAlloc, stateFrees, invalidWrites,
                   futAlive, presult, ret, issued, calls, woken, firstFired>>
    /\ UNCHANGED nonFutureVars

\* fn poll, line 41: if state.done
poll_read_done ==
    /\ ppc = "enter"
    /\ ppc' = IF done THEN "read_result" ELSE "issue"
    /\ UNCHANGED <<result, code, done, strong, stateAlloc, stateFrees, invalidWrites,
                   futAlive, pwaker, presult, pentry, ret, issued, calls, woken,
                   firstFired>>
    /\ UNCHANGED nonFutureVars

\* fn poll, line 42: the first argument, state.result, is read
poll_read_result ==
    /\ ppc = "read_result"
    /\ presult' = result
    /\ ppc' = "read_code"
    /\ UNCHANGED <<result, code, done, strong, stateAlloc, stateFrees, invalidWrites,
                   futAlive, pwaker, pentry, ret, issued, calls, woken, firstFired>>
    /\ UNCHANGED nonFutureVars

\* fn poll, line 42: state.code is read and Poll::Ready(..) is returned
poll_ready ==
    /\ ppc = "read_code"
    /\ ret' = from_ptr_with_code(presult, code)
    /\ ppc' = "idle"
    /\ pwaker' = "none"
    /\ presult' = NULL
    /\ UNCHANGED <<result, code, done, strong, stateAlloc, stateFrees, invalidWrites,
                   futAlive, pentry, issued, calls, woken, firstFired>>
    /\ UNCHANGED nonFutureVars

\* RawTaos::query_a(sql, callback, param): the native call is issued; the native
\* library keeps the token and will invoke the callback with it
query_a(token) ==
    /\ issued' = issued + 1
    /\ calls' = [calls EXCEPT ![issued + 1] = token]

\* poll_issue with the Arc handed to the box without self.state.clone()
poll_issue_no_clone ==
    /\ ppc = "issue"
    /\ issued < MaxCalls
    /\ strong' = strong
    /\ query_a([NoCall EXCEPT !.box = "live", !.waker = pwaker, !.cb = "pending"])
    /\ ret' = Pending
    /\ ppc' = "idle"
    /\ pwaker' = "none"
    /\ UNCHANGED <<result, code, done, stateAlloc, stateFrees, invalidWrites,
                   futAlive, presult, pentry, woken, firstFired>>
    /\ UNCHANGED nonFutureVars

\* fn poll, lines 59-66: Box::new((self.state.clone(), cx.waker().clone())),
\* Box::into_raw, query_a, Poll::Pending
poll_issue ==
    /\ ppc = "issue"
    /\ issued < MaxCalls
    /\ strong' = strong + 1
    /\ query_a([NoCall EXCEPT !.box = "live", !.waker = pwaker, !.cb = "pending"])
    /\ ret' = Pending
    /\ ppc' = "idle"
    /\ pwaker' = "none"
    /\ UNCHANGED <<result, code, done, stateAlloc, stateFrees, invalidWrites,
                   futAlive, presult, pentry, woken, firstFired>>
    /\ UNCHANGED nonFutureVars

\* The native library invokes taos_sys_async_query_callback(param, res, code);
\* line 50: Box::from_raw(param)
callback_enter(i, res, c) ==
    /\ calls[i].cb = "pending"
    /\ calls' = [calls EXCEPT ![i].cb = "write_result", ![i].res = res, ![i].c = c]
    /\ UNCHANGED <<result, code, done, strong, stateAlloc, stateFrees, invalidWrites,
                   futAlive, ppc, pwaker, presult, pentry, ret, issued, woken,
                   firstFired>>
    /\ UNCHANGED nonFutureVars

\* callback, line 53: s.result = res
callback_write_result(i) ==
    /\ calls[i].cb = "write_result"
    /\ result' = calls[i].res
    /\ invalidWrites' = IF stateAlloc THEN invalidWrites ELSE 1
    /\ calls' = [calls EXCEPT ![i].cb = "write_code",
                              ![i].wrote = calls[i].wrote \cup {"result"}]
    /\ UNCHANGED <<code, done, strong, stateAlloc, stateFrees,
                   futAlive, ppc, pwaker, presult, pentry, ret, issued, woken,
                   firstFired>>
    /\ UNCHANGED nonFutureVars

\* callback, line 54: s.code = code
callback_write_code(i) ==
    /\ calls[i].cb = "write_code"
    /\ code' = calls[i].c
    /\ invalidWrites' = IF stateAlloc THEN invalidWrites ELSE 1
    /\ calls' = [calls EXCEPT ![i].cb = "write_done",
                              ![i].wrote = calls[i].wrote \cup {"code"}]
    /\ UNCHANGED <<result, done, strong, stateAlloc, stateFrees,
                   futAlive, ppc, pwaker, presult, pentry, ret, issued, woken,
                   firstFired>>
    /\ UNCHANGED nonFutureVars

\* callback, line 55: s.done = true
callback_write_done(i) ==
    /\ calls[i].cb = "write_done"
    /\ done' = TRUE
    /\ invalidWrites' = IF stateAlloc THEN invalidWrites ELSE 1
    /\ firstFired' = IF firstFired = 0 THEN i ELSE firstFired
    /\ calls' = [calls EXCEPT ![i].cb = "wake",
                              ![i].wrote = calls[i].wrote \cup {"done"}]
    /\ UNCHANGED <<result, code, strong, stateAlloc, stateFrees,
                   futAlive, ppc, pwaker, presult, pentry, ret, issued, woken>>
    /\ UNCHANGED nonFutureVars

\* callback_wake with the wake-up lost
callback_wake_lost(i) ==
    /\ calls[i].cb = "wake"
    /\ calls' = [calls EXCEPT ![i].cb = "return"]
    /\ UNCHANGED <<result, code, done, strong, stateAlloc, stateFrees, invalidWrites,
                   futAlive, ppc, pwaker, presult, pentry, ret, issued, woken,
                   firstFired>>
    /\ UNCHANGED nonFutureVars

\* callback, line 56: state.1.wake()
callback_wake(i) ==
    /\ calls[i].cb = "wake"
    /\ woken' = woken \cup {calls[i].waker}
    /\ calls' = [calls EXCEPT ![i].cb = "return", ![i].woke = calls[i].waker]
    /\ UNCHANGED <<result, code, done, strong, stateAlloc, stateFrees, invalidWrites,
                   futAlive, ppc, pwaker, presult, pentry, ret, issued, firstFired>>
    /\ UNCHANGED nonFutureVars

\* callback_return with the box only borrowed from the token, never reclaimed
callback_return_leak(i) ==
    /\ calls[i].cb = "return"
    /\ calls' = [calls EXCEPT ![i].cb = "finished"]
    /\ UNCHANGED <<result, code, done, strong, stateAlloc, stateFrees, invalidWrites,
                   futAlive, ppc, pwaker, presult, pentry, ret, issued, woken,
                   firstFired>>
    /\ UNCHANGED nonFutureVars

\* callback, line 57: the Box taken at line 50 goes out of scope: the box is
\* freed and its Arc reference is dropped
callback_return(i) ==
    /\ calls[i].cb = "return"
    /\ calls' = [calls EXCEPT ![i].cb = "finished", ![i].box = "freed",
                              ![i].boxFrees = calls[i].boxFrees + 1]
    /\ ArcDrop
    /\ UNCHANGED <<result, code, done, invalidWrites,
                   futAlive, ppc, pwaker, presult, pentry, ret, issued, woken,
                   firstFired>>
    /\ UNCHANGED nonFutureVars

\* The QueryFuture is dropped (not while it is being polled: poll borrows it mutably).
drop_future ==
    /\ futAlive /\ ppc = "idle"
    /\ futAlive' = FALSE
    /\ ArcDrop
    /\ UNCHANGED <<result, code, done, invalidWrites,
                   ppc, pwaker, presult, pentry, ret, issued, calls, woken,
                   firstFired>>
    /\ UNCHANGED nonFutureVars

FutureNext ==
    \/ \E w \in Wakers : poll_woken(w)
    \/ \E w \in Wakers : poll_unprompted(w)
    \/ poll_read_done
    \/ poll_read_result
    \/ poll_ready
    \/ poll_issue
    \/ \E i \in CallIds, c \in Codes : callback_enter(i, i, c)
    \/ \E i \in CallIds : callback_write_result(i)
    \/ \E i \in CallIds : callback_write_code(i)
    \/ \E i \in CallIds : callback_write_done(i)
    \/ \E i \in CallIds : callback_wake(i)
    \/ \E i \in CallIds : callback_return(i)
    \/ drop_future


(***************************************************************************)
(* data.rs                                                                 *)
(***************************************************************************)
Bytes == 0..255
\* byte values the payloads are built from
ByteVals == {0, 1, 255}
\* type tags (u16) the envelopes carry; the codec does not interpret them
TypeTags == {0, 1, 258, 65535}

\* const RAW_PTR_OFFSET = size_of::<u32>() + size_of::<u16>()
RAW_PTR_OFFSET == 6

\* uN::to_le_bytes: the n bytes of v, least significant first
RECURSIVE to_le_bytes(_, _)
to_le_bytes(v, n) ==
    IF n = 0 THEN <<>> ELSE <<v % 256>> \o to_le_bytes(v \div 256, n - 1)

\* uN::from_le_bytes
RECURSIVE from_le_bytes(_)
from_le_bytes(bs) ==
    IF bs = <<>> THEN 0 ELSE Head(bs) + 256 * from_le_bytes(Tail(bs))

\* the unsafe loads *(ptr as *const u32) and *(ptr as *const u16) of
\* RawDataInner::raw_len / raw_type, on the little-endian targets of the crate
native_load(bs, off, n) == from_le_bytes(SubSeq(bs, off + 1, off + n))

\* struct raw_data_t: raw points at mem, of which raw_len bytes are the payload
raw_data_t(mem, len, type) == [raw |-> mem, raw_len |-> len, raw_type |-> type]

\* raw_data_t::to_bytes with the type tag written before the length
to_bytes_swapped(r) ==
    to_le_bytes(r.raw_type, 2) \o to_le_bytes(r.raw_len, 4) \o SubSeq(r.raw, 1, r.raw_len)

\* raw_data_t::to_bytes
to_bytes(r) ==
    to_le_bytes(r.raw_len, 4) \o to_le_bytes(r.raw_type, 2) \o SubSeq(r.raw, 1, r.raw_len)

\* enum RawDataInner { Raw(raw_data_t), Data(Bytes) } and the From impls of RawData
Raw(r) == [variant |-> "Raw", raw |-> r]
Data(bytes) == [variant |-> "Data", bytes |-> bytes]

\* RawDataInner::raw_len
raw_len(d) ==
    IF d.variant = "Raw" THEN d.raw.raw_len ELSE native_load(d.bytes, 0, 4)

\* RawDataInner::raw_type
raw_type(d) ==
    IF d.variant = "Raw" THEN d.raw.raw_type ELSE native_load(d.bytes, 4, 2)

\* RawDataInner::raw: the memory the returned pointer points at
raw(d) ==
    IF d.variant = "Raw" THEN d.raw.raw
    ELSE SubSeq(d.bytes, RAW_PTR_OFFSET + 1, Len(d.bytes))

\* RawDataInner::as_bytes
as_bytes(d) == IF d.variant = "Raw" THEN to_bytes(d.raw) ELSE d.bytes

\* the raw_len bytes a consumer reads through the raw pointer
payload(d) == SubSeq(raw(d), 1, raw_len(d))

Ok(v) == [kind |-> "Ok", value |-> v]
Err(e) == [kind |-> "Err", error |-> e]
NoResult == [kind |-> "None"]

\* a byte source: the bytes it delivers before its end, and the read position
Reader(bytes) == [buf |-> bytes, pos |-> 0]

\* Read::read_exact / AsyncReadExt::read_exact: n bytes, or UnexpectedEof
read_exact(rd, n) ==
    IF Len(rd.buf) - rd.pos >= n
    THEN [kind |-> "Ok", value |-> SubSeq(rd.buf, rd.pos + 1, rd.pos + n),
          rd |-> [rd EXCEPT !.pos = rd.pos + n]]
    ELSE [kind |-> "Err", error |-> "UnexpectedEof", rd |-> rd]

\* Read::read: the bytes that are there, at most n of them
read_some(rd, n) ==
    LET k == IF Len(rd.buf) - rd.pos >= n THEN n ELSE Len(rd.buf) - rd.pos
    IN  [kind |-> "Ok", value |-> SubSeq(rd.buf, rd.pos + 1, rd.pos + k),
         rd |-> [rd EXCEPT !.pos = rd.pos + k]]

\* InlinableRead::read_u32: exactly 4 bytes, taken as a little-endian integer
read_u32(rd) ==
    LET r == read_exact(rd, 4)
    IN  IF r.kind = "Ok" THEN [r EXCEPT !.value = from_le_bytes(r.value)] ELSE r

\* InlinableRead::read_u16: exactly 2 bytes, taken as a little-endian integer
read_u16(rd) ==
    LET r == read_exact(rd, 2)
    IN  IF r.kind = "Ok" THEN [r EXCEPT !.value = from_le_bytes(r.value)] ELSE r

\* AsyncReadExt::read_u32_le
read_u32_le(rd) ==
    LET r == read_exact(rd, 4)
    IN  IF r.kind = "Ok" THEN [r EXCEPT !.value = from_le_bytes(r.value)] ELSE r

\* AsyncReadExt::read_u16_le
read_u16_le(rd) ==
    LET r == read_exact(rd, 2)
    IN  IF r.kind = "Ok" THEN [r EXCEPT !.value = from_le_bytes(r.value)] ELSE r

\* Vec::resize(new_len, 0)
resize(v, n) ==
    IF n <= Len(v) THEN SubSeq(v, 1, n) ELSE v \o [i \in 1..(n - Len(v)) |-> 0]

\* read_inlined with data.resize(len) in place of data.resize(data.len() + len)
read_inlined_short_resize(rd) ==
    LET len == read_u32(rd) IN
    IF len.kind = "Err" THEN Err(len.error) ELSE
    LET meta_type == read_u16(len.rd) IN
    IF meta_type.kind = "Err" THEN Err(meta_type.error) ELSE
    LET data == resize(to_le_bytes(len.value, 4) \o to_le_bytes(meta_type.value, 2),
                       IF len.value < RAW_PTR_OFFSET THEN RAW_PTR_OFFSET ELSE len.value)
        buf == read_exact(meta_type.rd, Len(data) - RAW_PTR_OFFSET)
    IN  IF buf.kind = "Err" THEN Err(buf.error)
        ELSE Ok(Data(SubSeq(data, 1, RAW_PTR_OFFSET) \o buf.value))

\* impl Inlinable for RawData: read_inlined (blocking)
read_inlined(rd) ==
    LET len == read_u32(rd) IN
    IF len.kind = "Err" THEN Err(len.error) ELSE
    LET meta_type == read_u16(len.rd) IN
    IF meta_type.kind = "Err" THEN Err(meta_type.error) ELSE
    LET data == resize(to_le_bytes(len.value, 4) \o to_le_bytes(meta_type.value, 2),
                       RAW_PTR_OFFSET + len.value)
        buf == read_exact(meta_type.rd, Len(data) - RAW_PTR_OFFSET)
    IN  IF buf.kind = "Err" THEN Err(buf.error)
        ELSE Ok(Data(SubSeq(data, 1, RAW_PTR_OFFSET) \o buf.value))

\* the non-blocking read_inlined with the payload taken by one read, whose short
\* count is ignored, in place of read_exact
async_read_inlined_partial(rd) ==
    LET len == read_u32_le(rd) IN
    IF len.kind = "Err" THEN Err(len.error) ELSE
    LET meta_type == read_u16_le(len.rd) IN
    IF meta_type.kind = "Err" THEN Err(meta_type.error) ELSE
    LET data == resize(to_le_bytes(len.value, 4) \o to_le_bytes(meta_type.value, 2),
                       RAW_PTR_OFFSET + len.value)
        buf == read_some(meta_type.rd, Len(data) - RAW_PTR_OFFSET)
    IN  Ok(Data(SubSeq(data, 1, RAW_PTR_OFFSET) \o buf.value
                \o SubSeq(data, RAW_PTR_OFFSET + Len(buf.value) + 1, Len(data))))

\* impl AsyncInlinable for RawData: read_inlined (non-blocking)
async_read_inlined(rd) ==
    LET len == read_u32_le(rd) IN
    IF len.kind = "Err" THEN Err(len.error) ELSE
    LET meta_type == read_u16_le(len.rd) IN
    IF meta_type.kind = "Err" THEN Err(meta_type.error) ELSE
    LET data == resize(to_le_bytes(len.value, 4) \o to_le_bytes(meta_type.value, 2),
                       RAW_PTR_OFFSET + len.value)
        buf == read_exact(meta_type.rd, Len(data) - RAW_PTR_OFFSET)
    IN  IF buf.kind = "Err" THEN Err(buf.error)
        ELSE Ok(Data(SubSeq(data, 1, RAW_PTR_OFFSET) \o buf.value))

\* Write::write_all / AsyncWriteExt::write_all into a growable buffer
write_all(wtr, bytes) == wtr \o bytes

\* write_inlined returning the payload length in place of bytes.len()
write_inlined_payload_count(d, wtr) ==
    LET bytes == as_bytes(d)
    IN  [wtr |-> write_all(wtr, bytes), ret |-> Ok(raw_len(d))]

\* write_inlined, blocking and non-blocking: the writer's new content and Ok(n)
write_inlined(d, wtr) ==
    LET bytes == as_bytes(d)
    IN  [wtr |-> write_all(wtr, bytes), ret |-> Ok(Len(bytes))]

\* The envelopes of the model: every payload over ByteVals of at most MaxLen
\* bytes and one payload of LongLen bytes, under every type tag, once as a view
\* of foreign memory and once as an owned buffer.
RECURSIVE SeqsUpTo(_, _)
SeqsUpTo(S, n) ==
    IF n = 0 THEN {<<>>}
    ELSE LET shorter == SeqsUpTo(S, n - 1)
         IN  shorter \cup {Append(q, b) : q \in {x \in shorter : Len(x) = n - 1}, b \in S}

Payloads == SeqsUpTo(ByteVals, MaxLen) \cup {[i \in 1..LongLen |-> 1 + (i % 2)]}

Views == {raw_data_t(pl, Len(pl), t) : pl \in Payloads, t \in TypeTags}

Envelopes == {Raw(r) : r \in Views} \cup {Data(to_bytes(r)) : r \in Views}

EnvelopeInit ==
    /\ env \in Envelopes
    /\ wire = <<>>
    /\ written = NoResult
    /\ truncated = FALSE
    /\ decoded = NoResult
    /\ epc = "built"
    /\ encoder = "none"
    /\ decoder = "none"

\* Inlinable::write_inlined(&self, wtr) on a fresh Vec<u8>
encode_sync ==
    /\ epc = "built"
    /\ LET w == write_inlined(env, wire)
       IN  wire' = w.wtr /\ written' = w.ret
    /\ epc' = "written"
    /\ encoder' = "sync"
    /\ UNCHANGED <<env, truncated, decoded, decoder>>
    /\ UNCHANGED nonEnvelopeVars

\* AsyncInlinable::write_inlined(&self, wtr) on a fresh Vec<u8>
encode_async ==
    /\ epc = "built"
    /\ LET w == write_inlined(env, wire)
       IN  wire' = w.wtr /\ written' = w.ret
    /\ epc' = "written"
    /\ encoder' = "async"
    /\ UNCHANGED <<env, truncated, decoded, decoder>>
    /\ UNCHANGED nonEnvelopeVars

\* The transport ends early: the byte source holds only the first k bytes.
truncate(k) ==
    /\ epc = "written"
    /\ ~truncated
    /\ k < Len(wire)
    /\ wire' = SubSeq(wire, 1, k)
    /\ truncated' = TRUE
    /\ UNCHANGED <<env, written, decoded, epc, encoder, decoder>>
    /\ UNCHANGED nonEnvelopeVars

\* Inlinable::read_inlined(reader) on the bytes of the wire
decode_sync ==
    /\ epc = "written"
    /\ decoded' = read_inlined(Reader(wire))
    /\ epc' = "decoded"
    /\ decoder' = "sync"
    /\ UNCHANGED <<env, wire, written, truncated, encoder>>
    /\ UNCHANGED nonEnvelopeVars

\* AsyncInlinable::read_inlined(reader) on the bytes of the wire
decode_async ==
    /\ epc = "written"
    /\ decoded' = async_read_inlined(Reader(wire))
    /\ epc' = "decoded"
    /\ decoder' = "async"
    /\ UNCHANGED <<env, wire, written, truncated, encoder>>
    /\ UNCHANGED nonEnvelopeVars

\* the cuts of a frame of n bytes that are tried: everywhere in the header and
\* the first payload bytes, and just before the last byte
CutPoints(n) == {k \in 0..(n - 1) : k <= RAW_PTR_OFFSET + MaxLen \/ k = n - 1}

EnvelopeNext ==
    \/ encode_sync
    \/ encode_async
    \/ \E k \in CutPoints(Len(wire)) : truncate(k)
    \/ decode_sync
    \/ decode_async

\* the envelope part while the future bridge is checked, and the reverse
EnvelopeIdle ==
    /\ env = Raw(raw_data_t(<<>>, 0, 0))
    /\ wire = <<>>
    /\ written = NoResult
    /\ truncated = FALSE
    /\ decoded = NoResult
    /\ epc = "idle"
    /\ encoder = "none"
    /\ decoder = "none"

(***************************************************************************)
(* big_int_unsigned_view.rs: the column view of unsigned 64-bit values.    *)
(***************************************************************************)

\* Option<T>: None is the empty sequence, Some(v) the sequence holding v
None == <<>>
Some(v) == <<v>>

\* const ITEM_SIZE = size_of::<u64>()
ITEM_SIZE == 8

\* the mask of a row within its bitmap byte: row 0 is the top bit
BitMask(row) == <<128, 64, 32, 16, 8, 4, 2, 1>>[(row % 8) + 1]

\* NullBits::is_null_unchecked: bit row of the bitmap (set: the row is NULL)
NullBits_is_null_unchecked(nulls, row) ==
    IF (row \div 8) + 1 <= Len(nulls)
    THEN (nulls[(row \div 8) + 1] \div BitMask(row)) % 2 = 1
    ELSE FALSE

\* one byte of a packed bitmap: the bits of rows 8*j .. 8*j+7 of flags
RECURSIVE PackByte(_, _, _)
PackByte(flags, j, k) ==
    IF k = 8 THEN 0
    ELSE (IF 8 * j + k < Len(flags) /\ flags[8 * j + k + 1] THEN BitMask(k) ELSE 0)
         + PackByte(flags, j, k + 1)

\* NullBits::from_iter: ceil(n/8) bytes, bit i set exactly for a true flag i
NullBits_from_iter(flags) ==
    [j \in 1..((Len(flags) + 7) \div 8) |-> PackByte(flags, j - 1, 0)]

\* NullBits::slice: the flags of rows start..end repacked from bit 0
NullBits_slice(nulls, start, end) ==
    NullBits_from_iter([i \in 1..(end - start) |->
                           NullBits_is_null_unchecked(nulls, start + i - 1)])

\* struct UBigIntView { nulls: NullBits, data: Bytes }
UBigIntView(nulls, data) == [nulls |-> nulls, data |-> data]

\* UBigIntView::len
len(v) == Len(v.data) \div ITEM_SIZE

\* UBigIntView::is_null_unchecked
is_null_unchecked(v, row) == NullBits_is_null_unchecked(v.nulls, row)

\* UBigIntView::is_null
is_null(v, row) == IF row < len(v) THEN is_null_unchecked(v, row) ELSE FALSE

\* UBigIntView::get_raw_at: the u64 at data[row * 8 ..], as the target stores it
get_raw_at(v, row) == native_load(v.data, row * ITEM_SIZE, ITEM_SIZE)

\* UBigIntView::get_unchecked
get_unchecked(v, row) ==
    IF is_null_unchecked(v, row) THEN None ELSE Some(get_raw_at(v, row))

\* UBigIntView::get
get(v, row) == IF row < len(v) THEN get_unchecked(v, row) ELSE None

\* std::ops::Range<usize>::len
range_len(start, end) == IF start < end THEN end - start ELSE 0

\* UBigIntView::slice clamping the end of the range to the last row
slice_clamp_short(v, start, end) ==
    IF start >= len(v) THEN None
    ELSE LET e == IF end >= len(v) THEN len(v) - 1 ELSE end
         IN  IF range_len(start, e) = 0 THEN None
             ELSE Some(UBigIntView(NullBits_slice(v.nulls, start, e),
                                   SubSeq(v.data, start * ITEM_SIZE + 1, e * ITEM_SIZE)))

\* UBigIntView::slice taking the bitmap bytes the range touches, not repacked
slice_whole_bytes(v, start, end) ==
    IF start >= len(v) THEN None
    ELSE LET e == IF end >= len(v) THEN len(v) ELSE end
         IN  IF range_len(start, e) = 0 THEN None
             ELSE Some(UBigIntView(SubSeq(v.nulls, (start \div 8) + 1, (e + 7) \div 8),
                                   SubSeq(v.data, start * ITEM_SIZE + 1, e * ITEM_SIZE)))

\* UBigIntView::slice keeping the bitmap of the whole column
slice_keep_nulls(v, start, end) ==
    IF start >= len(v) THEN None
    ELSE LET e == IF end >= len(v) THEN len(v) ELSE end
         IN  IF range_len(start, e) = 0 THEN None
             ELSE Some(UBigIntView(v.nulls,
                                   SubSeq(v.data, start * ITEM_SIZE + 1, e * ITEM_SIZE)))

\* UBigIntView::slice
slice(v, start, end) ==
    IF start >= len(v) THEN None
    ELSE LET e == IF end >= len(v) THEN len(v) ELSE end
         IN  IF range_len(start, e) = 0 THEN None
             ELSE Some(UBigIntView(NullBits_slice(v.nulls, start, e),
                                   SubSeq(v.data, start * ITEM_SIZE + 1, e * ITEM_SIZE)))

\* UBigIntView::iter
iter(v) == [row |-> 0]

\* UBigIntViewIter::next that advances by two rows
next_skips_one(v, it) ==
    IF it.row < len(v)
    THEN [it |-> [row |-> it.row + 2], ret |-> Some(get_unchecked(v, it.row))]
    ELSE [it |-> it, ret |-> None]

\* UBigIntViewIter::next: the iterator afterwards and the item returned
next(v, it) ==
    IF it.row < len(v)
    THEN [it |-> [row |-> it.row + 1], ret |-> Some(get_unchecked(v, it.row))]
    ELSE [it |-> it, ret |-> None]

\* UBigIntViewIter::size_hint
size_hint(v, it) ==
    IF it.row < len(v)
    THEN <<len(v) - it.row, Some(len(v) - it.row)>>
    ELSE <<0, Some(0)>>

\* ExactSizeIterator::len of UBigIntViewIter
iter_len(v, it) == len(v) - it.row

\* iter().collect(): the items next hands out until it returns None
RECURSIVE collect_from(_, _)
collect_from(v, it) ==
    LET n == next(v, it)
    IN  IF n.ret = None THEN <<>> ELSE <<n.ret[1]>> \o collect_from(v, n.it)

collect(v) == collect_from(v, iter(v))

\* the unzip of from_iter: the flag and the stored value of one item
item_null(x) == x = None
item_value(x) == IF x = None THEN 0 ELSE x[1]

\* FromIterator for UBigIntView that keeps the values of the present items only
from_iter_skip_nulls(xs) ==
    LET present == SelectSeq(xs, LAMBDA x : x # None)
    IN  UBigIntView(NullBits_from_iter([i \in 1..Len(xs) |-> item_null(xs[i])]),
                    [j \in 1..(Len(present) * ITEM_SIZE) |->
                        to_le_bytes(item_value(present[((j - 1) \div ITEM_SIZE) + 1]),
                                    ITEM_SIZE)[((j - 1) % ITEM_SIZE) + 1]])

\* FromIterator for UBigIntView
from_iter(xs) ==
    UBigIntView(NullBits_from_iter([i \in 1..Len(xs) |-> item_null(xs[i])]),
                [j \in 1..(Len(xs) * ITEM_SIZE) |->
                    to_le_bytes(item_value(xs[((j - 1) \div ITEM_SIZE) + 1]),
                                ITEM_SIZE)[((j - 1) % ITEM_SIZE) + 1]])

\* Add for the view that keeps the left operand only
add_left_only(a, b) == from_iter(collect(a))

\* Add for UBigIntView, &UBigIntView and the two mixed forms
add(a, b) == from_iter(collect(a) \o collect(b))

\* a std::io::Write with room for a limited number of bytes
Writer(room) == [buf |-> <<>>, room |-> room]

\* Write::write_all: all of the bytes, or what fits and an error
write_all_to(w, bytes) ==
    IF Len(bytes) <= w.room
    THEN [wtr |-> [buf |-> w.buf \o bytes, room |-> w.room - Len(bytes)],
          ret |-> Ok("unit")]
    ELSE [wtr |-> [buf |-> w.buf \o SubSeq(bytes, 1, w.room), room |-> 0],
          ret |-> Err("WriteZero")]

\* UBigIntView::write_raw_into that writes the values before the bitmap
write_raw_into_values_first(v, wtr, debug) ==
    LET nulls == v.nulls
        w1 == write_all_to(wtr, v.data)
        w2 == write_all_to(w1.wtr, nulls)
    IN  IF debug /\ Len(nulls) # (len(v) + 7) \div 8
        THEN [wtr |-> wtr, ret |-> [kind |-> "Panic"]]
        ELSE IF w1.ret.kind = "Err" THEN [wtr |-> w1.wtr, ret |-> w1.ret]
        ELSE IF w2.ret.kind = "Err" THEN [wtr |-> w2.wtr, ret |-> w2.ret]
        ELSE [wtr |-> w2.wtr, ret |-> Ok(Len(nulls) + Len(v.data))]

\* UBigIntView::write_raw_into that leaves the bitmap out
write_raw_into_no_bitmap(v, wtr, debug) ==
    LET nulls == v.nulls
        w2 == write_all_to(wtr, v.data)
    IN  IF debug /\ Len(nulls) # (len(v) + 7) \div 8
        THEN [wtr |-> wtr, ret |-> [kind |-> "Panic"]]
        ELSE IF w2.ret.kind = "Err" THEN [wtr |-> w2.wtr, ret |-> w2.ret]
        ELSE [wtr |-> w2.wtr, ret |-> Ok(Len(nulls) + Len(v.data))]

\* UBigIntView::write_raw_into; debug: the build has debug assertions on
write_raw_into(v, wtr, debug) ==
    LET nulls == v.nulls
        w1 == write_all_to(wtr, nulls)
        w2 == write_all_to(w1.wtr, v.data)
    IN  IF debug /\ Len(nulls) # (len(v) + 7) \div 8
        THEN [wtr |-> wtr, ret |-> [kind |-> "Panic"]]
        ELSE IF w1.ret.kind = "Err" THEN [wtr |-> w1.wtr, ret |-> w1.ret]
        ELSE IF w2.ret.kind = "Err" THEN [wtr |-> w2.wtr, ret |-> w2.ret]
        ELSE [wtr |-> w2.wtr, ret |-> Ok(Len(nulls) + Len(v.data))]

\* a column taken from wire bytes with the bitmap read as all clear
ingest_no_bitmap(bytes, n) ==
    UBigIntView([j \in 1..((n + 7) \div 8) |-> 0],
                SubSeq(bytes, ((n + 7) \div 8) + 1, Len(bytes)))

\* a column taken from wire bytes of n rows: the first ceil(n/8) bytes are the
\* bitmap, the rest the values
ingest(bytes, n) ==
    UBigIntView(SubSeq(bytes, 1, (n + 7) \div 8),
                SubSeq(bytes, ((n + 7) \div 8) + 1, Len(bytes)))

\* the values a present item takes in the short columns, 0 being the value
\* from_iter stores in the place of an absent one
OptionVals == {None, Some(0), Some(258)}

\* every column of up to MaxRows items
ShortCols == SeqsUpTo(OptionVals, MaxRows)

\* a column whose bitmap spans more than one byte
LongCol ==
    [i \in 1..LongRows |->
        IF i % 3 = 0 THEN None ELSE IF i % 3 = 1 THEN Some(0) ELSE Some(250 + i)]

\* the operands of the documented sum [1, null, 3] + [null, 5]
ExampleA == <<Some(1), None, Some(3)>>
ExampleB == <<None, Some(5)>>

\* the item sequences columns are built from
Inputs == ShortCols \cup {LongCol, ExampleA, ExampleB}

\* the record of the last operation on the column
Op(op, self, arg, r) == [op |-> op, self |-> self, arg |-> arg, ret |-> r]

\* no iterator is alive; nothing observed of an iterator
NoIter == [row |-> -1]
NoHint == [hint |-> <<>>, len |-> -1]

\* what size_hint and ExactSizeIterator::len report for the iterator
Hint(v, it) == [hint |-> size_hint(v, it), len |-> iter_len(v, it)]

\* the longest column a sum produces: that of the documented sum
MaxCat == Len(ExampleA) + Len(ExampleB)

\* a view returned by an operation on a built column is the column of the
\* operations that follow; what those return is recorded and not operated on
Derive(r) ==
    IF ~cderived
    THEN view' = r /\ cderived' = TRUE
    ELSE UNCHANGED <<view, cderived>>

\* the items a column is about to be built from
ColumnInit ==
    \E input \in Inputs :
        /\ view = UBigIntView(<<>>, <<>>)
        /\ cop = Op("new", UBigIntView(<<>>, <<>>), input, None)
        /\ cit = NoIter
        /\ cnexts = 0
        /\ cyield = <<>>
        /\ chint = NoHint
        /\ cderived = FALSE

\* UBigIntView::from_iter(input)
col_from_iter ==
    /\ cop.op = "new"
    /\ view' = from_iter(cop.arg)
    /\ cop' = Op("from_iter", view, cop.arg, from_iter(cop.arg))
    /\ UNCHANGED <<cit, cnexts, cyield, chint, cderived>>
    /\ UNCHANGED nonColumnVars

\* view.slice(start..end)
col_slice(start, end) ==
    /\ cop.op # "new"
    /\ cit = NoIter
    /\ LET r == slice(view, start, end)
       IN  /\ cop' = Op("slice", view, <<start, end>>, r)
           /\ IF r = None THEN UNCHANGED <<view, cderived>> ELSE Derive(r[1])
    /\ UNCHANGED <<cit, cnexts, cyield, chint>>
    /\ UNCHANGED nonColumnVars

\* view + UBigIntView::from_iter(b); the four Add impls, for owned and borrowed
\* operands, are the same expression
col_add(b) ==
    /\ cop.op # "new"
    /\ cit = NoIter
    /\ len(view) + Len(b) <= MaxCat
    /\ LET r == add(view, from_iter(b))
       IN  /\ cop' = Op("add", view, from_iter(b), r)
           /\ Derive(r)
    /\ UNCHANGED <<cit, cnexts, cyield, chint>>
    /\ UNCHANGED nonColumnVars

\* view.write_raw_into(wtr), the writer having room for room bytes
col_write(room, debug) ==
    /\ cop.op # "new"
    /\ cit = NoIter
    /\ cop' = Op("write", view, room, write_raw_into(view, Writer(room), debug))
    /\ UNCHANGED <<view, cderived, cit, cnexts, cyield, chint>>
    /\ UNCHANGED nonColumnVars

\* the bytes of a complete write taken back as a column of the same row count
col_ingest ==
    /\ cit = NoIter
    /\ cop.op = "write"
    /\ cop.ret.ret.kind = "Ok"
    /\ LET r == ingest(cop.ret.wtr.buf, len(view))
       IN  /\ cop' = Op("ingest", view, cop.ret.wtr.buf, r)
           /\ Derive(r)
    /\ UNCHANGED <<cit, cnexts, cyield, chint>>
    /\ UNCHANGED nonColumnVars

\* view.iter(): a new iterator, any earlier one being dropped
col_iter ==
    /\ cop.op # "new"
    /\ cit' = iter(view)
    /\ cnexts' = 0
    /\ cyield' = <<>>
    /\ chint' = Hint(view, iter(view))
    /\ cop' = Op("iter", view, None, None)
    /\ UNCHANGED <<view, cderived>>
    /\ UNCHANGED nonColumnVars

\* one call of next on the iterator, then size_hint and len on it
col_next ==
    /\ cit # NoIter
    /\ cnexts < len(view) + MaxAfter
    /\ LET n == next(view, cit)
       IN  /\ cit' = n.it
           /\ cyield' = IF n.ret = None THEN cyield ELSE Append(cyield, n.ret[1])
           /\ chint' = Hint(view, n.it)
           /\ cop' = Op("next", view, cnexts, n.ret)
    /\ cnexts' = cnexts + 1
    /\ UNCHANGED <<view, cderived>>
    /\ UNCHANGED nonColumnVars

\* the iterator goes out of scope
col_drop_iter ==
    /\ cit # NoIter
    /\ cit' = NoIter
    /\ cnexts' = 0
    /\ cyield' = <<>>
    /\ chint' = NoHint
    /\ cop' = Op("drop", view, None, None)
    /\ UNCHANGED <<view, cderived>>
    /\ UNCHANGED nonColumnVars

\* the room of the writers tried on a column: none, the bitmap only, all of it
Rooms(v) == {0, Len(v.nulls), Len(v.nulls) + Len(v.data)}

ColumnNext ==
    \/ col_from_iter
    \/ \E start \in 0..len(view), end \in 0..(len(view) + 1) : col_slice(start, end)
    \/ \E b \in Inputs : col_add(b)
    \/ \E room \in Rooms(view), debug \in BOOLEAN : col_write(room, debug)
    \/ col_ingest
    \/ col_iter
    \/ col_next
    \/ col_drop_iter

\* the column part while another part is checked
ColumnIdle ==
    /\ view = UBigIntView(<<>>, <<>>)
    /\ cop = Op("idle", UBigIntView(<<>>, <<>>), None, None)
    /\ cit = NoIter
    /\ cnexts = 0
    /\ cyield = <<>>
    /\ chint = NoHint
    /\ cderived = FALSE

(***************************************************************************)
(* rows.rs: the row iterators of a block.                                  *)
(***************************************************************************)

\* the cells of the blocks iterated over
CellVals == {None, Some(1), Some(42)}

\* the column names of a block of n columns
FieldNames(n) == SubSeq(<<"a", "b", "c", "d">>, 1, n)

\* RawBlock: a schema and as many columns, all of the same number of rows
RawBlock(fields, columns) == [fields |-> fields, columns |-> columns]

\* RawBlock::nrows and RawBlock::ncols: the rows of the columns and their
\* number, which is the length of the schema in a block that has names
nrows(blk) == IF blk.columns = <<>> THEN 0 ELSE Len(blk.columns[1])
ncols(blk) == Len(blk.columns)

\* all sequences of exactly n elements of S
SeqsOfLen(S, n) == [1..n -> S]

\* the blocks of up to MaxCols columns and MaxBlockRows rows
Blocks ==
    UNION {{RawBlock(FieldNames(nc), cols) : cols \in SeqsOfLen(SeqsOfLen(CellVals, nr), nc)} :
              nc \in 1..MaxCols, nr \in 0..MaxBlockRows}

\* struct RowView { raw, row, col }
RowView(row, col) == [row |-> row, col |-> col]

\* IntoRowsIter::next: the cursor afterwards and the item returned
IntoRowsIter_next(blk, row) ==
    IF row >= nrows(blk)
    THEN [row |-> row, ret |-> None]
    ELSE [row |-> row + 1, ret |-> Some(RowView(row, 0))]

\* RowsIter::next that ends one row early
RowsIter_next_short(blk, row) ==
    IF row + 1 >= nrows(blk)
    THEN [row |-> row, ret |-> None]
    ELSE [row |-> row + 1, ret |-> Some(RowView(row, 0))]

\* RowsIter::next: the cursor afterwards and the item returned
RowsIter_next(blk, row) ==
    IF row >= nrows(blk)
    THEN [row |-> row, ret |-> None]
    ELSE [row |-> row + 1, ret |-> Some(RowView(row, 0))]

\* no cursor over a row is in use
NoView == [kind |-> "none", row |-> 0, col |-> 0]

CursorIdle ==
    /\ rv = NoView
    /\ rvcalls = 0
    /\ rvyield = <<>>
    /\ rvlast = None
    /\ rvhint = None
    /\ oob = {}
    /\ crashed = FALSE

\* no row is being deserialized
DeserIdle ==
    /\ dreq = "none"
    /\ dpc = "idle"
    /\ dkey = None
    /\ dout = <<>>
    /\ dres = None
    /\ dhist = <<>>

\* a fresh iterator over the rows of the block, borrowing or owning
IterInit ==
    /\ rkind \in {"RowsIter", "IntoRowsIter"}
    /\ rrow = 0
    /\ rlast = None
    /\ ryield = <<>>
    /\ rcalls = 0
    /\ CursorIdle
    /\ DeserIdle

\* a block and a fresh iterator over its rows
RowsInit ==
    /\ block \in Blocks
    /\ IterInit

\* one call of next on the iterator of kind kind
rows_step(kind, n) ==
    /\ rkind = kind
    /\ oob = {}
    /\ dpc \notin {"key", "value", "element"}
    /\ rcalls < nrows(block) + MaxAfter
    /\ rrow' = n.row
    /\ rlast' = n.ret
    /\ ryield' = IF n.ret = None THEN ryield ELSE Append(ryield, n.ret[1])
    /\ rcalls' = rcalls + 1
    /\ UNCHANGED <<block, rkind, cursorVars, deserVars>>
    /\ UNCHANGED nonRowsVars

rows_next == rows_step("RowsIter", RowsIter_next(block, rrow))

into_rows_next == rows_step("IntoRowsIter", IntoRowsIter_next(block, rrow))

RowsNext ==
    \/ rows_next
    \/ into_rows_next

\* the blocks whose cells are NULL or 42
PlainBlocks ==
    {b \in Blocks : \A c \in 1..Len(b.columns) : \A r \in 1..Len(b.columns[c]) :
                        b.columns[c][r] \in {None, Some(42)}}

\* the same blocks with a schema that carries no column names
BareBlocks == {RawBlock(<<>>, b.columns) : b \in PlainBlocks}

\* what lies where an out-of-bounds access reads: any name, any value
WildName == "?"
Wild == Some(-1)

\* one unchecked access: fields.get_unchecked(col) or get_ref_unchecked(row, col)
Access(fn, row, col) == [fn |-> fn, row |-> row, col |-> col]

\* the precondition of an unchecked access
InBounds(blk, a) ==
    IF a.fn = "get_ref_unchecked"
    THEN a.row < nrows(blk) /\ a.col < ncols(blk)
    ELSE a.col < Len(blk.fields)

\* RawBlock::get_ref_unchecked(row, col): the cell, if there is one
get_ref_unchecked(blk, row, col) ==
    IF InBounds(blk, Access("get_ref_unchecked", row, col))
    THEN blk.columns[col + 1][row + 1]
    ELSE Wild

\* raw.fields.get_unchecked(col).as_str(): the name, if there is one
fields_get_unchecked(blk, col) ==
    IF col < Len(blk.fields) THEN blk.fields[col + 1] ELSE WildName

\* the cursors over the columns of a row
Cursor(kind, row, col) == [kind |-> kind, row |-> row, col |-> col]

\* RowsIter::values and RowsIter::named_values
values(row) == Cursor("ValueIter", row, 0)
named_values(row) == Cursor("RowView", row, 0)

\* the RowView that next handed out, in the caller's hands
taken(v) == Cursor("RowView", v.row, v.col)

\* ValueIter::next: the cursor afterwards, the item and the unchecked accesses
ValueIter_next(blk, v) ==
    IF v.col >= ncols(blk)
    THEN [view |-> v, ret |-> None, acc |-> {}]
    ELSE [view |-> [v EXCEPT !.col = v.col + 1],
          ret |-> Some(get_ref_unchecked(blk, v.row, v.col)),
          acc |-> {Access("get_ref_unchecked", v.row, v.col)}]

\* RowView::next
RowView_next(blk, v) ==
    IF v.col >= ncols(blk)
    THEN [view |-> v, ret |-> None, acc |-> {}]
    ELSE [view |-> [v EXCEPT !.col = v.col + 1],
          ret |-> Some(<<fields_get_unchecked(blk, v.col),
                         get_ref_unchecked(blk, v.row, v.col)>>),
          acc |-> {Access("fields.get_unchecked", -1, v.col),
                   Access("get_ref_unchecked", v.row, v.col)}]

\* RowView::size_hint
RowView_size_hint(blk, v) ==
    LET max == ncols(blk)
    IN  IF v.col < max THEN <<max - v.col, Some(max - v.col)>> ELSE <<0, Some(0)>>

\* RowViewOfValue::next
RowViewOfValue_next(blk, v) ==
    IF v.col >= ncols(blk)
    THEN [view |-> v, ret |-> None, acc |-> {}]
    ELSE [view |-> [v EXCEPT !.col = v.col + 1],
          ret |-> Some(get_ref_unchecked(blk, v.row, v.col)),
          acc |-> {Access("get_ref_unchecked", v.row, v.col)}]

\* RowView::into_value_iter
into_value_iter(v) == Cursor("RowViewOfValue", v.row, v.col)

\* Iterator::next of the cursor in use
cursor_next(blk, v) ==
    IF v.kind = "ValueIter" THEN ValueIter_next(blk, v)
    ELSE IF v.kind = "RowView" THEN RowView_next(blk, v)
    ELSE RowViewOfValue_next(blk, v)

\* the out-of-bounds ones among the accesses of a call
Bad(blk, acc) == {a \in acc : ~InBounds(blk, a)}

\* an item with g where an out-of-bounds read was made
Resolve(item, g) ==
    IF item = None THEN None
    ELSE IF Len(item[1]) = 2
         THEN Some(<<item[1][1], IF item[1][2] = Wild THEN g ELSE item[1][2]>>)
         ELSE Some(IF item[1] = Wild THEN g ELSE item[1])

\* size_hint of the cursor, where it has one of its own
hint_of(blk, v) == IF v.kind = "RowView" THEN Some(RowView_size_hint(blk, v)) ELSE None

\* a new cursor v in the caller's hands; what the program does after an
\* out-of-bounds access is not followed
use(v) ==
    /\ oob = {}
    /\ dpc \in {"idle", "done", "failed"}
    /\ rv' = v
    /\ rvcalls' = 0
    /\ rvyield' = <<>>
    /\ rvlast' = None
    /\ rvhint' = hint_of(block, v)
    /\ UNCHANGED <<block, rkind, rrow, rlast, ryield, rcalls, oob, crashed, deserVars>>
    /\ UNCHANGED nonRowsVars

\* rows.values()
rows_values == rkind = "RowsIter" /\ use(values(rrow))

\* rows.named_values()
rows_named_values == rkind = "RowsIter" /\ use(named_values(rrow))

\* the caller takes the RowView the last call of next returned
take_row == rlast # None /\ rv # taken(rlast[1]) /\ use(taken(rlast[1]))

\* view.into_value_iter()
rv_into_value_iter ==
    /\ rv.kind = "RowView"
    /\ oob = {}
    /\ rv' = into_value_iter(rv)
    /\ rvhint' = None
    /\ UNCHANGED <<block, rkind, rrow, rlast, ryield, rcalls,
                   rvcalls, rvyield, rvlast, oob, crashed, deserVars>>
    /\ UNCHANGED nonRowsVars

\* the effect of a call n into the cursor: as computed if every unchecked
\* access was in bounds; else the process ends, or goes on with whatever
\* value g the read found
Effect(n, g, crash) ==
    LET bad == Bad(block, n.acc)
    IN  /\ oob' = oob \cup bad
        /\ IF bad # {} /\ crash
           THEN /\ crashed' = TRUE
                /\ UNCHANGED <<rv, rvlast, rvyield, rvhint>>
           ELSE /\ crashed' = FALSE
                /\ rv' = n.view
                /\ rvlast' = Resolve(n.ret, g)
                /\ rvyield' = IF n.ret = None THEN rvyield
                              ELSE Append(rvyield, Resolve(n.ret, g)[1])
                /\ rvhint' = hint_of(block, n.view)

\* one call of next on the cursor in use
rv_next ==
    /\ rv # NoView
    /\ oob = {}
    /\ dpc \in {"idle", "done", "failed"}
    /\ rvcalls < ncols(block) + MaxAfter
    /\ rvcalls' = rvcalls + 1
    /\ LET n == cursor_next(block, rv)
       IN  \E g \in (IF Bad(block, n.acc) = {} THEN {None} ELSE CellVals),
              crash \in (IF Bad(block, n.acc) = {} THEN {FALSE} ELSE BOOLEAN) :
                  Effect(n, g, crash)
    /\ UNCHANGED <<block, rkind, rrow, rlast, ryield, rcalls, deserVars>>
    /\ UNCHANGED nonRowsVars

CursorNext ==
    \/ rows_next
    \/ into_rows_next
    \/ rows_values
    \/ rows_named_values
    \/ take_row
    \/ rv_into_value_iter
    \/ rv_next

\* a block with or without names and a fresh iterator over its rows
CursorInit ==
    /\ block \in PlainBlocks \cup BareBlocks
    /\ IterInit

\* the types a visitor asks a column for
Targets == {"i32", "bool", "Option<i32>"}

\* an error message: what it reports and the words it contains
Message(what, mentions) == [what |-> what, mentions |-> mentions]

\* <DeError as serde::de::Error>::custom(e): an error carrying the text of e
custom(e) == Message(e.what, e.mentions)

\* is_null of a borrowed value
value_is_null(val) == val = None

\* the deserializer of a borrowed value asked for type ty: an integer is an
\* i32 and no bool, NULL is None for an option and nothing else
value_deserialize(val, ty) ==
    IF ty = "Option<i32>"
    THEN IF value_is_null(val) THEN Ok(None) ELSE Ok(Some(val[1]))
    ELSE IF value_is_null(val)
         THEN Err(Message("null", {"invalid type", "null", ty}))
         ELSE IF ty = "i32" THEN Ok(val[1])
         ELSE Err(Message("type mismatch", {"invalid type", "integer", ty}))

\* RowView::walk_next
walk_next(blk, v) ==
    LET n == RowView_next(blk, v)
    IN  [view |-> n.view,
         ret |-> IF n.ret = None THEN None ELSE Some(n.ret[1][2]),
         acc |-> n.acc]

\* RowView::peek_name reporting the name of the column after the current one
peek_name_ahead(blk, v) ==
    IF v.col + 1 < Len(blk.fields) THEN Some(blk.fields[v.col + 2]) ELSE None

\* RowView::peek_name
peek_name(blk, v) ==
    IF v.col < Len(blk.fields) THEN Some(blk.fields[v.col + 1]) ELSE None

\* Deserializer::deserialize_any for &mut RowView, the visitor expecting ty
deserialize_any(blk, v, ty) ==
    LET w == walk_next(blk, v)
    IN  [view |-> w.view,
         ret |-> IF w.ret # None
                 THEN LET r == value_deserialize(w.ret[1], ty)
                      IN  IF r.kind = "Err" THEN Err(custom(r.error)) ELSE r
                 ELSE Err(custom(Message("no value", {"expect value, not none"}))),
         acc |-> w.acc]

\* Deserializer::deserialize_option that hands every value to visit_some
deserialize_option_all_some(blk, v, ty) ==
    LET w == walk_next(blk, v)
    IN  [view |-> w.view,
         ret |-> IF w.ret # None
                 THEN LET r == value_deserialize(w.ret[1], ty)
                      IN  IF r.kind = "Err" THEN Err(custom(r.error))
                          ELSE Ok(Some(r.value))
                 ELSE Err(custom(Message("no value", {"expect next value"}))),
         acc |-> w.acc]

\* Deserializer::deserialize_option for &mut RowView, the option being of ty
deserialize_option(blk, v, ty) ==
    LET w == walk_next(blk, v)
    IN  [view |-> w.view,
         ret |-> IF w.ret # None
                 THEN IF value_is_null(w.ret[1]) THEN Ok(None)
                      ELSE LET r == value_deserialize(w.ret[1], ty)
                           IN  IF r.kind = "Err" THEN Err(custom(r.error))
                               ELSE Ok(Some(r.value))
                 ELSE Err(custom(Message("no value", {"expect next value"}))),
         acc |-> w.acc]

\* what Deserialize for ty calls on the &mut RowView it is given
deserialize(blk, v, ty) ==
    IF ty = "Option<i32>" THEN deserialize_option(blk, v, "i32")
    ELSE deserialize_any(blk, v, ty)

\* SeqAccess::next_element_seed, the seed being of type ty
next_element_seed(blk, v, ty) ==
    LET n == RowView_next(blk, v)
    IN  [view |-> n.view,
         ret |-> IF n.ret # None
                 THEN LET r == value_deserialize(n.ret[1][2], ty)
                      IN  IF r.kind = "Err" THEN Err(custom(r.error))
                          ELSE Ok(Some(r.value))
                 ELSE Ok(None),
         acc |-> n.acc]

\* MapAccess::next_key_seed
next_key_seed(blk, v) ==
    [view |-> v,
     ret |-> IF peek_name(blk, v) # None THEN Ok(Some(peek_name(blk, v)[1])) ELSE Ok(None),
     acc |-> {}]

\* MapAccess::next_value_seed, the seed being of type ty
next_value_seed(blk, v, ty) ==
    LET d == deserialize(blk, v, ty)
    IN  [view |-> d.view,
         ret |-> IF d.ret.kind = "Err" THEN Err(custom(d.ret.error)) ELSE d.ret,
         acc |-> d.acc]

\* Deserializer::deserialize_map: the access the visitor is given
deserialize_map(blk) == IF blk.fields = <<>> THEN "visit_seq" ELSE "visit_map"

\* Deserializer::deserialize_struct
deserialize_struct(blk) == deserialize_map(blk)

\* Deserializer::deserialize_seq, deserialize_tuple, deserialize_tuple_struct
deserialize_seq(blk) == "visit_seq"

\* the ways a target asks for a row
Requests == {"seq", "map", "struct"}

\* one item delivered to the visitor: from which column, under which key, as
\* which type
Delivered(row, col, key, ty, value) ==
    [row |-> row, col |-> col, key |-> key, ty |-> ty, value |-> value]

\* the record of a call that asked column col of row row for type ty
Asked(row, col, ty, r) == Some([row |-> row, col |-> col, ty |-> ty, ret |-> r])

\* the rows whose deserialization returned an error or never returned
Finished == {dhist[i].row : i \in 1..Len(dhist)}

\* T::deserialize(&mut row_view) is entered for the RowView in hand
de_begin(req) ==
    /\ rv.kind = "RowView"
    /\ rv.col = 0
    /\ rv.row \notin Finished
    /\ oob = {}
    /\ dpc \in {"idle", "done", "failed"}
    /\ dreq' = req
    /\ dpc' = LET access == IF req = "seq" THEN deserialize_seq(block)
                            ELSE IF req = "map" THEN deserialize_map(block)
                            ELSE deserialize_struct(block)
              IN  IF access = "visit_seq" THEN "element" ELSE "key"
    /\ dkey' = None
    /\ dout' = <<>>
    /\ dres' = None
    /\ UNCHANGED <<block, rkind, rrow, rlast, ryield, rcalls, cursorVars, dhist>>
    /\ UNCHANGED nonRowsVars

\* the row's deserialization ends with outcome how
de_finish(how) ==
    /\ dpc' = how
    /\ dhist' = IF how = "done" THEN dhist ELSE Append(dhist, [row |-> rv.row, how |-> how])

\* what a call n into the RowView does to it and to the process
de_effect(n, crash) ==
    /\ oob' = oob \cup Bad(block, n.acc)
    /\ crashed' = (Bad(block, n.acc) # {} /\ crash)
    /\ rv' = n.view
    /\ rvhint' = hint_of(block, n.view)
    /\ UNCHANGED <<block, rkind, rrow, rlast, ryield, rcalls, rvcalls, rvyield, rvlast, dreq>>
    /\ UNCHANGED nonRowsVars

\* the visitor calls next_key
de_key ==
    /\ dpc = "key"
    /\ oob = {}
    /\ LET n == next_key_seed(block, rv)
       IN  /\ de_effect(n, FALSE)
           /\ dres' = None
           /\ IF n.ret.value = None
              THEN dkey' = None /\ dout' = dout /\ de_finish("done")
              ELSE dkey' = n.ret.value /\ dout' = dout /\ dpc' = "value" /\ dhist' = dhist

\* MapAccess::next_value_seed whose failure also ends the iteration over the rows
de_value_poisons(ty) ==
    /\ dpc = "value"
    /\ oob = {}
    /\ LET n == next_value_seed(block, rv, ty)
       IN  /\ oob' = oob \cup Bad(block, n.acc)
           /\ crashed' = FALSE
           /\ rv' = n.view
           /\ rvhint' = hint_of(block, n.view)
           /\ rrow' = IF n.ret.kind = "Err" THEN nrows(block) ELSE rrow
           /\ UNCHANGED <<block, rkind, rlast, ryield, rcalls, rvcalls, rvyield, rvlast, dreq>>
           /\ UNCHANGED nonRowsVars
           /\ dres' = Asked(rv.row, rv.col, ty, n.ret)
           /\ dkey' = dkey
           /\ IF n.ret.kind = "Err"
              THEN dout' = dout /\ de_finish("failed")
              ELSE /\ dout' = Append(dout, Delivered(rv.row, rv.col, dkey, ty, n.ret.value))
                   /\ dpc' = "key" /\ dhist' = dhist

\* the visitor calls next_value for a field of type ty
de_value(ty) ==
    /\ dpc = "value"
    /\ oob = {}
    /\ LET n == next_value_seed(block, rv, ty)
       IN  \E crash \in (IF Bad(block, n.acc) = {} THEN {FALSE} ELSE BOOLEAN) :
              /\ de_effect(n, crash)
              /\ dres' = Asked(rv.row, rv.col, ty, n.ret)
              /\ dkey' = dkey
              /\ IF crash THEN dout' = dout /\ de_finish("crashed")
                 ELSE IF n.ret.kind = "Err" THEN dout' = dout /\ de_finish("failed")
                 ELSE /\ dout' = Append(dout, Delivered(rv.row, rv.col, dkey, ty, n.ret.value))
                      /\ dpc' = "key" /\ dhist' = dhist

\* the visitor calls next_element for an element of type ty
de_element(ty) ==
    /\ dpc = "element"
    /\ oob = {}
    /\ LET n == next_element_seed(block, rv, ty)
       IN  \E crash \in (IF Bad(block, n.acc) = {} THEN {FALSE} ELSE BOOLEAN) :
              /\ de_effect(n, crash)
              /\ dres' = IF n.ret = Ok(None) THEN None
                        ELSE IF n.ret.kind = "Err" THEN Asked(rv.row, rv.col, ty, n.ret)
                        ELSE Asked(rv.row, rv.col, ty, Ok(n.ret.value[1]))
              /\ dkey' = None
              /\ IF crash THEN dout' = dout /\ de_finish("crashed")
                 ELSE IF n.ret.kind = "Err" THEN dout' = dout /\ de_finish("failed")
                 ELSE IF n.ret.value = None THEN dout' = dout /\ de_finish("done")
                 ELSE /\ dout' = Append(dout, Delivered(rv.row, rv.col, None, ty, n.ret.value[1]))
                      /\ dpc' = "element" /\ dhist' = dhist

\* a block and a borrowing iterator over its rows, each row handed to a target
DeserInit ==
    /\ block \in PlainBlocks \cup BareBlocks
    /\ IterInit
    /\ rkind = "RowsIter"

DeserNext ==
    \/ rows_next
    \/ take_row
    \/ \E req \in Requests : de_begin(req)
    \/ de_key
    \/ \E ty \in Targets : de_value(ty)
    \/ \E ty \in Targets : de_element(ty)

\* the row iterator part while another part is checked
RowsIdle ==
    /\ block = RawBlock(<<>>, <<>>)
    /\ rkind = "none"
    /\ rrow = 0
    /\ rlast = None
    /\ ryield = <<>>
    /\ rcalls = 0
    /\ CursorIdle
    /\ DeserIdle

(***************************************************************************)
(* tmq.rs: PartialEq<i32> for tmq_conf_res_t.                              *)
(***************************************************************************)

\* enum tmq_conf_res_t
tmq_conf_res_t == {"Unknown", "Invalid", "Ok"}

\* the discriminant of a variant
discriminant(v) == IF v = "Unknown" THEN -2 ELSE IF v = "Invalid" THEN -1 ELSE 0

\* the integers a result is compared with
OtherCodes == -3..1

\* a tmq_conf_res_t and an i32 about to be compared
TmqInit ==
    /\ tself \in tmq_conf_res_t
    /\ tother \in OtherCodes
    /\ tdepth = 0
    /\ tpc = "idle"

\* the caller evaluates res == n: <tmq_conf_res_t as PartialEq<i32>>::eq is entered
eq_call ==
    /\ tpc = "idle"
    /\ tpc' = "running"
    /\ tdepth' = 1
    /\ UNCHANGED <<tself, tother>>
    /\ UNCHANGED nonTmqVars

\* the body of eq: self == other on (&tmq_conf_res_t, &i32) is the comparison of
\* references, which calls <tmq_conf_res_t as PartialEq<i32>>::eq again
eq ==
    /\ tpc = "running"
    /\ tdepth < MaxStack
    /\ tdepth' = tdepth + 1
    /\ UNCHANGED <<tself, tother, tpc>>
    /\ UNCHANGED nonTmqVars

\* no room is left for the frame of the next call
eq_stack_overflow ==
    /\ tpc = "running"
    /\ tdepth = MaxStack
    /\ tpc' = "overflow"
    /\ UNCHANGED <<tself, tother, tdepth>>
    /\ UNCHANGED nonTmqVars

TmqNext ==
    \/ eq_call
    \/ eq
    \/ eq_stack_overflow

\* the comparison part while another part is checked
TmqIdle ==
    /\ tself = "Ok"
    /\ tother = 0
    /\ tdepth = 0
    /\ tpc = "idle"

\* each part is checked with the other parts at rest
InitEnvelope == new /\ EnvelopeInit /\ ColumnIdle /\ RowsIdle /\ TmqIdle

SpecEnvelope == InitEnvelope /\ [][EnvelopeNext]_vars

FutureInit == new /\ EnvelopeIdle /\ ColumnIdle /\ RowsIdle /\ TmqIdle

InitColumn == new /\ EnvelopeIdle /\ ColumnInit /\ RowsIdle /\ TmqIdle

SpecColumn == InitColumn /\ [][ColumnNext]_vars

InitRows == new /\ EnvelopeIdle /\ ColumnIdle /\ RowsInit /\ TmqIdle

SpecRows == InitRows /\ [][RowsNext]_vars

InitCursor == new /\ EnvelopeIdle /\ ColumnIdle /\ CursorInit /\ TmqIdle

SpecCursor == InitCursor /\ [][CursorNext]_vars

InitDeser == new /\ EnvelopeIdle /\ ColumnIdle /\ DeserInit /\ TmqIdle

SpecDeser == InitDeser /\ [][DeserNext]_vars

InitTmq == new /\ EnvelopeIdle /\ ColumnIdle /\ RowsIdle /\ TmqInit

SpecTmq == InitTmq /\ [][TmqNext]_vars

\* The native library eventually runs every callback it owes; a poll that was
\* entered runs to its return; a woken consumer polls again.
FutureFairness ==
    /\ WF_vars(\E i \in CallIds :
                  \/ \E c \in Codes : callback_enter(i, i, c)
                  \/ callback_write_result(i)
                  \/ callback_write_code(i)
                  \/ callback_write_done(i)
                  \/ callback_wake(i)
                  \/ callback_return(i))
    /\ WF_vars(poll_read_done \/ poll_read_result \/ poll_ready \/ poll_issue)
    /\ WF_vars(\E w \in Wakers : poll_woken(w))

SpecFuture == FutureInit /\ [][FutureNext]_vars

SpecFutureLive == FutureInit /\ [][FutureNext]_vars /\ FutureFairness

(***************************************************************************)
(* Claims about the callback-to-future bridge.                             *)
(***************************************************************************)
AllWrites == {"result", "code", "done"}
Fired(i) == "done" \in calls[i].wrote
Running(i) == calls[i].cb \in {"pending", "write_result", "write_code",
                               "write_done", "wake", "return"}

\* C1: one QueryFuture issues the native call query_a at most once over its
\* lifetime; a repeated poll made before the callback has fired returns
\* Pending without issuing another native call.
C1_AtMostOneNativeCall == issued <= 1

\* C2: once the callback has fired with (H, c), every poll that returns Ready
\* carries the result of that same (H, c).
C2_ReadyIsTheFiredResult ==
    ret.kind = "Ready" =>
        /\ firstFired # 0
        /\ ret = from_ptr_with_code(calls[firstFired].res, calls[firstFired].c)

\* C3: done starts false, is set to true by exactly one callback invocation and
\* is never reset; result and code are not overwritten once done is true.
C3_DoneSetOnce ==
    /\ [](Cardinality({i \in CallIds : Fired(i)}) <= 1)
    /\ [][done => (done' /\ result' = result /\ code' = code)]_vars

\* C4: whenever poll returns Ready, the (handle, code) it returns is exactly the
\* pair written by one callback invocation that has set done: never the
\* initial (null, 0) and never a mix of two callbacks' writes.
C4_NoTornRead ==
    ret.kind = "Ready" =>
        \E i \in CallIds :
            /\ Fired(i)
            /\ ret = from_ptr_with_code(calls[i].res, calls[i].c)

\* C5: the box handed to query_a as token is live from issue time until its
\* callback returns, is freed by that callback and by nothing else, exactly
\* once, and no box outlives its callback.
C5_BoxReclaimedOnce ==
    \A i \in CallIds :
        /\ calls[i].boxFrees <= 1
        /\ (calls[i].cb = "none") <=> (calls[i].box = "none")
        /\ Running(i) <=> (calls[i].box = "live")
        /\ (calls[i].cb = "finished") <=> (calls[i].box = "freed")
        /\ (calls[i].box = "freed") <=> (calls[i].boxFrees = 1)

C5_Witness ==
    /\ ~futAlive
    /\ \E i \in CallIds : calls[i].box = "freed" /\ calls[i].boxFrees = 1
    /\ \E i \in CallIds : calls[i].box = "live"

\* C6: the shared State cell stays allocated while the future or any pending
\* callback still refers to it, so a callback that fires after the future was
\* dropped writes into live memory; the cell is freed when the last of them
\* has finished, and exactly once.
C6_StateOutlivesCallbacks ==
    /\ invalidWrites = 0
    /\ stateFrees <= 1
    /\ stateAlloc <=> (futAlive \/ \E i \in CallIds : Running(i))
    /\ stateAlloc <=> (stateFrees = 0)
    /\ strong = (IF futAlive THEN 1 ELSE 0) + Cardinality({i \in CallIds : Running(i)})

C6_Witness ==
    /\ ~futAlive
    /\ stateAlloc
    /\ \E i \in CallIds : calls[i].cb = "write_done" /\ calls[i].wrote = {"result", "code"}

\* C7: the callback wakes the wake handle that the issuing poll registered, and
\* only after result, code and done have been written; so, the native library
\* eventually running the callback and a woken consumer polling again, a
\* future that was polled and is not dropped eventually returns Ready.
C7_WakeThenReady ==
    /\ [](\A i \in CallIds :
            /\ calls[i].woke # "none" =>
                   (calls[i].woke = calls[i].waker /\ calls[i].wrote = AllWrites)
            /\ calls[i].cb \in {"return", "finished"} => calls[i].woke # "none")
    /\ ((issued > 0) ~> (ret.kind = "Ready" \/ ~futAlive))

C7_Witness ==
    /\ futAlive
    /\ ret.kind = "Ready"
    /\ \E i \in CallIds : calls[i].woke = calls[i].waker /\ calls[i].woke \notin woken

\* C8: a native call that completed with a non-zero status code is surfaced as
\* the future's error result, and no poll entered after a completion issues the
\* native call again.
C8_NonZeroCodeIsError ==
    /\ (ret.kind = "Ready" /\ firstFired # 0 /\ calls[firstFired].c # 0) =>
            (~ret.ok /\ ret.code = calls[firstFired].c)
    /\ (ppc = "issue" => ~pentry)

(***************************************************************************)
(* Claims about the envelope codec.                                        *)
(***************************************************************************)
\* C9: writing an envelope with write_inlined and reading the written bytes
\* back with read_inlined yields an envelope with the same raw_len, the same
\* raw_type and the same payload bytes, with either codec on either side.
C9_EnvelopeRoundTrip ==
    (epc = "decoded" /\ ~truncated) =>
        /\ decoded.kind = "Ok"
        /\ raw_len(decoded.value) = raw_len(env)
        /\ raw_type(decoded.value) = raw_type(env)
        /\ Len(raw(decoded.value)) >= raw_len(decoded.value)
        /\ payload(decoded.value) = payload(env)
        /\ Len(payload(decoded.value)) = raw_len(env)

C9_Witness ==
    /\ epc = "decoded" /\ ~truncated
    /\ encoder = "sync" /\ decoder = "sync"
    /\ env.variant = "Raw"
    /\ raw_len(env) = LongLen
    /\ raw_type(env) = 258
    /\ decoded.kind = "Ok"

\* C10: read_inlined from a byte source that ends inside the length, inside
\* the type tag or before all payload bytes fails with UnexpectedEof, and an
\* envelope it does return holds exactly the declared number of payload bytes,
\* all of them read from the source.
C10_ShortReadIsError ==
    epc = "decoded" =>
        /\ truncated => decoded = Err("UnexpectedEof")
        /\ decoded.kind = "Ok" =>
              /\ Len(decoded.value.bytes) = RAW_PTR_OFFSET + raw_len(decoded.value)
              /\ Len(decoded.value.bytes) <= Len(wire)
              /\ decoded.value.bytes = SubSeq(wire, 1, Len(decoded.value.bytes))

C10_Witness ==
    /\ epc = "decoded" /\ truncated
    /\ decoder = "async"
    /\ Len(wire) > RAW_PTR_OFFSET
    /\ decoded = Err("UnexpectedEof")

\* C11: for every foreign-memory view r, the RawData built from r and the
\* RawData built from the owned buffer r.to_bytes() return the same raw_len,
\* the same raw_type and the same raw_len payload bytes behind raw().
C11_SameAccessors ==
    (epc = "written" /\ ~truncated /\ env.variant = "Raw") =>
        /\ wire = to_bytes(env.raw)
        /\ Len(wire) >= RAW_PTR_OFFSET
        /\ raw_len(Data(wire)) = raw_len(env)
        /\ raw_type(Data(wire)) = raw_type(env)
        /\ Len(raw(Data(wire))) >= raw_len(env)
        /\ payload(Data(wire)) = payload(env)

C11_Witness ==
    /\ epc = "written" /\ ~truncated
    /\ env.variant = "Raw"
    /\ env.raw.raw_len = LongLen
    /\ env.raw.raw_type = 258
    /\ raw_len(Data(wire)) = LongLen
    /\ raw_type(Data(wire)) = 258

\* the length and the type tag of the envelope as its builder gave them
DeclaredLen == IF env.variant = "Raw" THEN env.raw.raw_len ELSE Len(env.bytes) - RAW_PTR_OFFSET
DeclaredType == raw_type(env)

\* C12: encoding writes the payload length in 4 bytes, least significant
\* first, the type tag in 2 bytes, least significant first, then exactly
\* length payload bytes, and returns 6 + length; the length field of the
\* encoded frame and of every decoded frame is its payload byte count.
C12_FrameLayout ==
    /\ (epc \in {"written", "decoded"}) => written = Ok(RAW_PTR_OFFSET + DeclaredLen)
    /\ (epc \in {"written", "decoded"} /\ ~truncated) =>
          /\ Len(wire) = RAW_PTR_OFFSET + DeclaredLen
          /\ wire[1] = DeclaredLen % 256
          /\ wire[2] = (DeclaredLen \div 256) % 256
          /\ wire[3] = (DeclaredLen \div 65536) % 256
          /\ wire[4] = DeclaredLen \div 16777216
          /\ wire[5] = DeclaredType % 256
          /\ wire[6] = DeclaredType \div 256
          /\ SubSeq(wire, RAW_PTR_OFFSET + 1, Len(wire)) = SubSeq(raw(env), 1, DeclaredLen)
          /\ native_load(wire, 0, 4) = Len(wire) - RAW_PTR_OFFSET
    /\ (epc = "decoded" /\ decoded.kind = "Ok") =>
          raw_len(decoded.value) = Len(decoded.value.bytes) - RAW_PTR_OFFSET

C12_Witness ==
    /\ epc = "decoded" /\ ~truncated
    /\ env.variant = "Raw"
    /\ DeclaredLen = LongLen
    /\ DeclaredType = 258
    /\ written = Ok(RAW_PTR_OFFSET + LongLen)
    /\ wire[1] = 2 /\ wire[2] = 1 /\ wire[5] = 2 /\ wire[6] = 1
    /\ decoded.kind = "Ok"

(***************************************************************************)
(* Claims about the column view.                                           *)
(***************************************************************************)
\* the smaller of two numbers
Min(a, b) == IF a < b THEN a ELSE b

\* the items of a view as its bounds-checked accessor reports them
Items(v) == [i \in 1..len(v) |-> get(v, i - 1)]

\* C13: the column built by from_iter from n optional values has len() = n;
\* for every i < n, is_null(i) holds exactly when the i-th value is absent and
\* get(i) is the i-th value, a present 0 (the value stored for an absent one)
\* being reported as present.
C13_FromIter ==
    (cop.op = "from_iter") =>
        LET xs == cop.arg
            c == cop.ret
        IN  /\ view = c
            /\ len(c) = Len(xs)
            /\ \A i \in 0..(Len(xs) - 1) :
                  /\ is_null(c, i) <=> (xs[i + 1] = None)
                  /\ get(c, i) = xs[i + 1]

C13_Witness ==
    /\ cop.op = "from_iter"
    /\ cop.arg = LongCol
    /\ len(view) = LongRows
    /\ get(view, 0) = Some(0) /\ ~is_null(view, 0)
    /\ get(view, 1) = Some(252)
    /\ get(view, 2) = None /\ is_null(view, 2)
    /\ is_null(view, 8)

\* iter().skip(k).take(n) of a sequence of items
SkipTake(s, k, n) == SubSeq(s, k + 1, Min(k + n, Len(s)))

\* C14: for a range that starts inside the column and is not empty once its
\* end is clamped, the items of c.slice(range), nulls included, are those of
\* c.iter().skip(range.start).take(range.len()), whatever range.start is.
C14_SliceLaw ==
    (/\ cop.op = "slice"
     /\ cop.arg[1] < len(cop.self)
     /\ cop.arg[1] < Min(cop.arg[2], len(cop.self))) =>
        /\ cop.ret # None
        /\ collect(cop.ret[1])
             = SkipTake(collect(cop.self), cop.arg[1], range_len(cop.arg[1], cop.arg[2]))
        /\ Items(cop.ret[1])
             = SubSeq(Items(cop.self), cop.arg[1] + 1, Min(cop.arg[2], len(cop.self)))

C14_Witness ==
    /\ cop.op = "slice"
    /\ cop.self = from_iter(LongCol)
    /\ cop.arg = <<5, LongRows + 1>>
    /\ cop.ret # None
    /\ view = cop.ret[1]
    /\ collect(view)[1] = None
    /\ collect(view)[2] = Some(0)
    /\ collect(view)[4] = None
    /\ Len(collect(view)) = LongRows - 5

\* C15: slice(range) is None if range.start >= len(); otherwise range.end is
\* clamped to len(), the result is None when the clamped range is empty, and
\* is otherwise a view whose len() is the length of the clamped range.
C15_SliceBounds ==
    (cop.op = "slice") =>
        LET n == len(cop.self)
            s == cop.arg[1]
            e == Min(cop.arg[2], n)
        IN  IF s >= n \/ e <= s
            THEN cop.ret = None
            ELSE cop.ret # None /\ len(cop.ret[1]) = e - s

C15_Witness ==
    /\ cop.op = "slice"
    /\ len(cop.self) = 3
    /\ cop.arg = <<2, 1>>
    /\ cop.ret = None

\* C16: a + b is a view of a.len() + b.len() rows, the rows of a followed by
\* the rows of b, nulls kept: [1, null, 3] + [null, 5] = [1, null, 3, null, 5].
C16_Concat ==
    (cop.op = "add") =>
        LET a == cop.self
            b == cop.arg
            c == cop.ret
        IN  /\ len(c) = len(a) + len(b)
            /\ \A i \in 0..(len(a) - 1) :
                  get(c, i) = get(a, i) /\ (is_null(c, i) <=> is_null(a, i))
            /\ \A j \in 0..(len(b) - 1) :
                  /\ get(c, len(a) + j) = get(b, j)
                  /\ is_null(c, len(a) + j) <=> is_null(b, j)

C16_Witness ==
    /\ cop.op = "add"
    /\ Items(cop.self) = ExampleA
    /\ Items(cop.arg) = ExampleB
    /\ Items(cop.ret) = <<Some(1), None, Some(3), None, Some(5)>>
    /\ view = cop.ret

\* C17: write_raw_into writes the bitmap bytes, then the value bytes, and
\* returns the number of bytes written, ceil(n/8) + 8 * n for n rows; when
\* the writer fails it returns the writer's error.
C17_WriteLayout ==
    (cop.op = "write") =>
        LET c == cop.self
            n == len(c)
            nb == (n + 7) \div 8
            out == cop.ret
        IN  IF cop.arg >= nb + 8 * n
            THEN /\ out.ret = Ok(nb + 8 * n)
                 /\ Len(out.wtr.buf) = nb + 8 * n
                 /\ \A i \in 0..(n - 1) :
                       /\ NullBits_is_null_unchecked(SubSeq(out.wtr.buf, 1, nb), i)
                            <=> (Items(c)[i + 1] = None)
                       /\ SubSeq(out.wtr.buf, nb + 8 * i + 1, nb + 8 * i + 8)
                            = SubSeq(c.data, 8 * i + 1, 8 * i + 8)
            ELSE out.ret = Err("WriteZero")

C17_Witness ==
    /\ cop.op = "write"
    /\ Items(cop.self) = LongCol
    /\ cop.ret.ret = Ok(((LongRows + 7) \div 8) + 8 * LongRows)
    /\ cop.ret.wtr.buf[1] = 36

\* C18: the bytes write_raw_into wrote for a column of n rows, taken as a
\* column of n rows (the first ceil(n/8) bytes the bitmap, the rest the
\* values), give the same null flag and the same value for every row.
C18_ColumnRoundTrip ==
    (cop.op = "ingest") =>
        /\ len(cop.ret) = len(cop.self)
        /\ \A i \in 0..(len(cop.self) - 1) :
              /\ is_null(cop.ret, i) <=> is_null(cop.self, i)
              /\ get(cop.ret, i) = get(cop.self, i)

C18_Witness ==
    /\ cop.op = "ingest"
    /\ cderived
    /\ len(cop.self) = LongRows - 1
    /\ Items(cop.ret) = SubSeq(LongCol, 2, LongRows)

\* C19: an iterator starts at row 0, yields the len() items in row order and
\* then None on every call; after k calls of next, both ends of size_hint and
\* ExactSizeIterator::len are len() - min(k, len()).
C19_Iteration ==
    (cit # NoIter) =>
        LET n == len(view)
            left == n - Min(cnexts, n)
        IN  /\ cyield = SubSeq(Items(view), 1, Min(cnexts, n))
            /\ chint.hint = <<left, Some(left)>>
            /\ chint.len = left
            /\ (cop.op = "iter") => (cnexts = 0 /\ cit.row = 0)
            /\ (cop.op = "next") =>
                  cop.ret = IF cop.arg < n THEN Some(Items(view)[cop.arg + 1]) ELSE None

C19_Witness ==
    /\ cit # NoIter
    /\ Items(view) = ExampleA
    /\ cnexts = 3 + MaxAfter
    /\ cyield = ExampleA
    /\ cop.op = "next" /\ cop.ret = None
    /\ chint.len = 0

(***************************************************************************)
(* Claims about the row iterators.                                         *)
(***************************************************************************)
\* C20: a row iterator over a block of nrows rows hands out one RowView per
\* row, for the rows 0 .. nrows-1 in order, each starting at column 0, and
\* None on every later call; the borrowing and the owning iterator alike.
C20_RowIteration ==
    (rkind \in {"RowsIter", "IntoRowsIter"}) =>
        /\ ryield = [i \in 1..Min(rcalls, nrows(block)) |-> RowView(i - 1, 0)]
        /\ (rcalls > nrows(block)) => rlast = None
        /\ (rcalls > 0 /\ rcalls <= nrows(block)) => rlast = Some(RowView(rcalls - 1, 0))

C20_Witness ==
    /\ rkind = "RowsIter"
    /\ nrows(block) = MaxBlockRows
    /\ rcalls = MaxBlockRows + MaxAfter
    /\ Len(ryield) = MaxBlockRows
    /\ ryield[MaxBlockRows] = RowView(MaxBlockRows - 1, 0)
    /\ rlast = None

\* the data buffer is 8 bytes a row and the bitmap ceil(len/8) bytes
Layout(v) ==
    /\ Len(v.data) = ITEM_SIZE * len(v)
    /\ Len(v.nulls) = (len(v) + 7) \div 8

\* C27: every view from_iter, slice and + produce has a data buffer of exactly
\* 8 * len() bytes and a bitmap of ceil(len()/8) bytes, so the debug assertion
\* of write_raw_into holds for it, slices starting off a multiple of 8 included.
C27_LayoutInvariant ==
    (cop.op # "new") =>
        /\ Layout(view)
        /\ (cop.op = "slice" /\ cop.ret # None) => Layout(cop.ret[1])
        /\ (cop.op \in {"from_iter", "add", "ingest"}) => Layout(cop.ret)
        /\ (cop.op = "write") => cop.ret.ret.kind # "Panic"

C27_Witness ==
    /\ cop.op = "write"
    /\ cderived
    /\ len(view) = LongRows - 3
    /\ Items(view) = SubSeq(LongCol, 4, LongRows)
    /\ Len(view.nulls) = (LongRows + 4) \div 8
    /\ cop.ret.ret.kind = "Ok"

(***************************************************************************)
(* Claims about tmq_conf_res_t.                                            *)
(***************************************************************************)
\* C29: comparing a tmq_conf_res_t with an i32 returns, with true exactly when
\* the discriminant equals the integer; eq does not call itself without
\* bound, so the comparison never runs out of stack.
C29_EqReturns == tpc # "overflow"

(***************************************************************************)
(* Claims about the cursors over a row.                                    *)
(***************************************************************************)
\* the (name, value) pairs of row r of the block, as far as it has them
PairsOfRow(blk, r) ==
    [c \in 1..ncols(blk) |-> <<fields_get_unchecked(blk, c - 1),
                               get_ref_unchecked(blk, r, c - 1)>>]

\* C21: a RowView yields the (column name, value) pairs of its row in schema
\* order from column 0, exactly ncols() of them and then None; its size hint
\* is ncols() - cursor, 0 once exhausted.
C21_RowViewPairs ==
    (rv.kind = "RowView") =>
        /\ rv.row < nrows(block)
        /\ Len(block.fields) = ncols(block)
        /\ ~crashed
        /\ rv.col = Min(rvcalls, ncols(block))
        /\ rvyield = SubSeq(PairsOfRow(block, rv.row), 1, Min(rvcalls, ncols(block)))
        /\ (rvcalls > ncols(block)) => rvlast = None
        /\ rvhint = Some(<<ncols(block) - rv.col, Some(ncols(block) - rv.col)>>)

\* C26: every ValueIter and RowView obtained from a RowsIter addresses a row
\* below nrows(), and no unchecked access (get_ref_unchecked,
\* fields.get_unchecked) is made out of bounds.
C26_UncheckedInBounds ==
    /\ (rv.kind \in {"ValueIter", "RowView"}) => rv.row < nrows(block)
    /\ oob = {}

(***************************************************************************)
(* Claims about the bridge from a row to a deserialized target.            *)
(***************************************************************************)
\* the cell of the block a call or a delivery was about
CellOf(a) == block.columns[a.col + 1][a.row + 1]

\* a delivery hands over the cell it was read from: as an option the cell as
\* it is, as a number the number in it
Matches(d) ==
    IF d.ty = "Option<i32>" THEN d.value = CellOf(d)
    ELSE CellOf(d) # None /\ d.value = CellOf(d)[1]

\* C22: a NULL column asked for a non-optional type is an error, a NULL
\* column asked for an optional type is None, and a non-NULL column asked for
\* an optional type is Some of its value.
C22_NullAsOption ==
    (dres # None /\ ~crashed) =>
        LET a == dres[1]
        IN  /\ (CellOf(a) = None /\ a.ty # "Option<i32>") => a.ret.kind = "Err"
            /\ (CellOf(a) = None /\ a.ty = "Option<i32>") => a.ret = Ok(None)
            /\ (CellOf(a) # None /\ a.ty = "Option<i32>") => a.ret = Ok(Some(CellOf(a)[1]))

C22_Witness ==
    /\ block = RawBlock(<<"a", "b">>, <<(<<Some(42)>>), (<<None>>)>>)
    /\ dreq = "struct"
    /\ dpc = "done"
    /\ Len(dout) = 2
    /\ dout[1] = Delivered(0, 0, Some("a"), "i32", 42)
    /\ dout[2] = Delivered(0, 1, Some("b"), "Option<i32>", None)

\* C23: a row of a block whose schema carries no names, asked for as a map
\* or a struct, is read without any access out of bounds and delivers every
\* column's value in column order.
C23_NoNamesPositional ==
    (block.fields = <<>> /\ dreq \in {"map", "struct"}) =>
        /\ oob = {}
        /\ ~crashed
        /\ (dpc = "done") =>
               /\ Len(dout) = ncols(block)
               /\ \A i \in 1..Len(dout) : dout[i].col = i - 1 /\ Matches(dout[i])

\* the rows whose deserialization returned an error
FailedRows == {dhist[i].row : i \in {j \in 1..Len(dhist) : dhist[j].how = "failed"}}

\* C24: after the deserialization of a row has failed the row iterator is
\* where its calls alone put it, has handed out every row so far, and a later
\* row that deserializes delivers all of its columns.
C24_ErrorIsolation ==
    (FailedRows # {}) =>
        /\ rrow = Min(rcalls, nrows(block))
        /\ ryield = [i \in 1..Min(rcalls, nrows(block)) |-> RowView(i - 1, 0)]
        /\ (dpc = "done") =>
               /\ Len(dout) = ncols(block)
               /\ \A i \in 1..Len(dout) : dout[i].col = i - 1 /\ Matches(dout[i])

C24_Witness ==
    /\ FailedRows = {0}
    /\ dpc = "done"
    /\ Len(dout) = MaxCols
    /\ dout[1].row = 1
    /\ rcalls = 2

\* an index as an error message would print it
IndexText(i) == <<"0", "1", "2", "3">>[i + 1]

\* C25: the error of a value that cannot be coerced to the type asked for
\* names the column it came from, by its name or by its index.
C25_MismatchNamesColumn ==
    (dres # None /\ ~crashed /\ dres[1].ret.kind = "Err") =>
        LET a == dres[1]
        IN  (a.ret.error.what = "type mismatch") =>
                \/ IndexText(a.col) \in a.ret.error.mentions
                \/ /\ a.col < Len(block.fields)
                   /\ block.fields[a.col + 1] \in a.ret.error.mentions

\* C28: over a row with named columns next_key reports the name of the column
\* the cursor is at and leaves the cursor there, each next_value consumes one
\* column, and the map ends when all ncols columns have been delivered as
\* (name, value) pairs in schema order.
C28_MapAccessProtocol ==
    (dreq \in {"map", "struct"} /\ block.fields # <<>> /\ dpc \in {"key", "value", "done"}) =>
        /\ \A i \in 1..Len(dout) :
               /\ dout[i].col = i - 1
               /\ dout[i].key = Some(block.fields[i])
               /\ Matches(dout[i])
        /\ (dpc \in {"key", "value"}) => rv.col = Len(dout)
        /\ (dpc = "value") => rv.col < ncols(block) /\ dkey = Some(block.fields[rv.col + 1])
        /\ (dpc = "done") => Len(dout) = ncols(block)

C28_Witness ==
    /\ dreq = "map"
    /\ block.fields = FieldNames(MaxCols)
    /\ dpc = "done"
    /\ Len(dout) = MaxCols
    /\ dout[MaxCols].key = Some(FieldNames(MaxCols)[MaxCols])

====
